---- MODULE Spec2Model ----
(***************************************************************************)
(* funrotate: a log rotator (src/main.rs).  One run of the program loads   *)
(* the rotation recorder from ".last_rotation", walks the configured files,*)
(* rotates those whose trigger fires and saves the recorder.               *)
(*                                                                         *)
(* Encoding.                                                               *)
(*   - A file name and a file's contents are sequences of byte values.     *)
(*   - The file system fs is a function from the existing names to their   *)
(*     contents.                                                           *)
(*   - Time is counted in seconds since 1999-01-01 00:00:00; a timestamp   *)
(*     string in ROTATION_TIME_FORMAT ("%Y-%m-%d %H:%M") is represented by *)
(*     the number of whole minutes it denotes.                             *)
(*   - The state file is absent (NoFile) or present with its rows, a       *)
(*     function path -> timestamp string.                                  *)
(***************************************************************************)
EXTENDS Integers, Sequences, FiniteSets, TLC

(***************************************************************************)
(* Bounds of the model.                                                    *)
(***************************************************************************)
\* longest live file the writing application produces between two runs
MaxLen == 1
\* number of runs of the program in one behaviour
MaxRuns == 3
\* highest generation index a behaviour may start with
MaxGen == 11
\* seconds around an interval boundary at which the clock is sampled
MaxSkew == 1
\* largest size threshold / file size of the size-trigger inputs
MaxSize == 7
\* minutes (after the base minute) a stored rotation time may denote
MaxMinute == 2

(***************************************************************************)
(* Bytes and names.                                                        *)
(***************************************************************************)
NL == 10
CR == 13
DOT == 46
ZERO == 48

\* usize::to_string: the decimal digits of n
RECURSIVE to_string(_)
to_string(n) ==
    IF n < 10 THEN <<ZERO + n>> ELSE to_string(n \div 10) \o <<ZERO + (n % 10)>>

\* ".zip"
ZipSuffix == <<DOT, 122, 105, 112>>

\* the name of generation k of path: path itself for k = 0, path.k otherwise
GenName(path, k) == IF k = 0 THEN path ELSE path \o <<DOT>> \o to_string(k)

ZipName(path) == path \o ZipSuffix

IsPrefix(p, s) == Len(p) <= Len(s) /\ SubSeq(s, 1, Len(p)) = p

\* byte-wise lexicographic order of two names (String's Ord)
RECURSIVE LexLess(_, _)
LexLess(a, b) ==
    IF a = <<>> THEN b # <<>>
    ELSE IF b = <<>> THEN FALSE
    ELSE IF Head(a) # Head(b) THEN Head(a) < Head(b)
    ELSE LexLess(Tail(a), Tail(b))

\* Vec::sort of a set of names
RECURSIVE SortNames(_)
SortNames(S) ==
    IF S = {} THEN <<>>
    ELSE LET m == CHOOSE x \in S : \A y \in S : y = x \/ LexLess(x, y)
         IN  <<m>> \o SortNames(S \ {m})

EmptyMap == [x \in {} |-> 0]

\* the state file: absent, or present with the rows it holds
NoFile == [present |-> FALSE, rows |-> EmptyMap]

StateFile(rows) == [present |-> TRUE, rows |-> rows]

(***************************************************************************)
(* Time: ROTATION_TIME_FORMAT, INTERVALS, the time trigger.                *)
(***************************************************************************)
\* DateTime::format(ROTATION_TIME_FORMAT): the seconds are dropped, the string
\* names a whole minute
format_time(t) == t \div 60

\* NaiveDateTime::parse_from_str(s, ROTATION_TIME_FORMAT): second 0 of the minute
parse_time(s) == s * 60

\* NaiveDate::from_ymd(1999, 1, 1).and_hms(1, 2, 3)
NeverRotated == (1 * 3600) + (2 * 60) + 3

INTERVALS ==
    [n \in {"hourly", "daily", "weekly", "monthly"} |->
        CASE n = "hourly" -> "Hourly"
          [] n = "daily" -> "Daily"
          [] n = "weekly" -> "Weekly"
          [] n = "monthly" -> "Monthly"]

\* STRATEGY with nocopytruncate mapped like the other names
STRATEGY_AllTruncate ==
    [n \in {"copy", "copytruncate", "create", "nocopytruncate"} |-> "CopyTruncate"]

STRATEGY ==
    [n \in {"copy", "copytruncate", "create", "nocopytruncate"} |->
        IF n = "nocopytruncate" THEN "Copy" ELSE "CopyTruncate"]

\* Duration::hours(1), Duration::days(1), Duration::days(7), Duration::days(30)
IntervalSeconds(rotation_interval) ==
    CASE rotation_interval = "Hourly" -> 3600
      [] rotation_interval = "Daily" -> 24 * 3600
      [] rotation_interval = "Weekly" -> 7 * 24 * 3600
      [] rotation_interval = "Monthly" -> 30 * 24 * 3600

\* rotation_time.checked_add_signed(..) of the match on the interval
next_rotation_time(rotation_time, file) ==
    rotation_time + IntervalSeconds(INTERVALS[file.interval])

\* is_rotation_triggered_on_time with a strict comparison
is_rotation_triggered_on_time_strict(rotation_time, file, now) ==
    0 < now - next_rotation_time(rotation_time, file)

\* is_rotation_triggered_on_time; now is Utc::now().timestamp().  The caller
\* guards the expect("invalid interval name") with file.interval \in DOMAIN INTERVALS.
is_rotation_triggered_on_time(rotation_time, file, now) ==
    0 <= now - next_rotation_time(rotation_time, file)

\* is_rotation_triggered_due_to_size with a non-strict comparison
is_rotation_triggered_due_to_size_or_equal(file, disk) ==
    file.size <= Len(disk[file.path])

\* is_rotation_triggered_due_to_size on an existing file (fs::metadata(..).len())
is_rotation_triggered_due_to_size(file, disk) ==
    file.size < Len(disk[file.path])

(***************************************************************************)
(* RotationRecorder.                                                       *)
(***************************************************************************)
\* last_rotation_time with 2001-01-01 in place of 1999-01-01
last_rotation_time_2001(ents, path) ==
    IF path \in DOMAIN ents THEN parse_time(ents[path])
    ELSE NeverRotated + (731 * 86400)

\* RotationRecorder::last_rotation_time
last_rotation_time(ents, path) ==
    IF path \in DOMAIN ents THEN parse_time(ents[path]) ELSE NeverRotated

\* update_rotation_time with an insert that keeps the record a path already has
update_rotation_time_keep(ents, path, rotation_time) ==
    ents @@ (path :> format_time(rotation_time))

\* RotationRecorder::update_rotation_time: the entries after the insert
update_rotation_time(ents, path, rotation_time) ==
    (path :> format_time(rotation_time)) @@ ents

\* RotationRecorder::save: whether the early return is skipped and the file written
save_writes(upd) == ~upd

(***************************************************************************)
(* The "compression": duplicate_bytes_in_lines and mess_up_file.           *)
(***************************************************************************)
Cont(b) == 128 <= b /\ b <= 191

\* String's invariant, checked by read_to_string: well-formed UTF-8
RECURSIVE Utf8Valid(_)
Utf8Valid(s) ==
    IF s = <<>> THEN TRUE
    ELSE LET b == s[1]
             n == Len(s)
         IN  IF b < 128 THEN Utf8Valid(Tail(s))
             ELSE IF 194 <= b /\ b <= 223
                  THEN n >= 2 /\ Cont(s[2]) /\ Utf8Valid(SubSeq(s, 3, n))
             ELSE IF 224 <= b /\ b <= 239
                  THEN /\ n >= 3
                       /\ Cont(s[2])
                       /\ (b = 224 => s[2] >= 160)
                       /\ (b = 237 => s[2] <= 159)
                       /\ Cont(s[3])
                       /\ Utf8Valid(SubSeq(s, 4, n))
             ELSE IF 240 <= b /\ b <= 244
                  THEN /\ n >= 4
                       /\ Cont(s[2])
                       /\ (b = 240 => s[2] >= 144)
                       /\ (b = 244 => s[2] <= 143)
                       /\ Cont(s[3])
                       /\ Cont(s[4])
                       /\ Utf8Valid(SubSeq(s, 5, n))
             ELSE FALSE

\* position of the first "\n" of s, 0 when there is none
FirstNL(s) ==
    IF \E k \in 1..Len(s) : s[k] = NL
    THEN CHOOSE k \in 1..Len(s) : s[k] = NL /\ \A j \in 1..(k - 1) : s[j] # NL
    ELSE 0

\* a line of str::lines: the "\r" of a "\r\n" terminator is not part of it
StripCR(l) ==
    IF l # <<>> /\ l[Len(l)] = CR THEN SubSeq(l, 1, Len(l) - 1) ELSE l

\* str::lines: the lines of s without their terminators; an unterminated last
\* line is a line, the empty rest after the last "\n" is not
RECURSIVE lines(_)
lines(s) ==
    IF s = <<>> THEN <<>>
    ELSE LET k == FirstNL(s)
         IN  IF k = 0 THEN <<s>>
             ELSE <<StripCR(SubSeq(s, 1, k - 1))>> \o lines(SubSeq(s, k + 1, Len(s)))

\* String::push / String::pop on a sequence of chars
push(str, c) == Append(str, c)

pop(str) == IF str = <<>> THEN str ELSE SubSeq(str, 1, Len(str) - 1)

\* the body of the loop over log.bytes(): four pushes, two pops, a push, a pop
dup_byte(str, b) ==
    pop(push(pop(pop(push(push(push(push(str, b), b), b), b))), b))

RECURSIVE dup_line(_, _)
dup_line(str, log) ==
    IF log = <<>> THEN str ELSE dup_line(dup_byte(str, Head(log)), Tail(log))

RECURSIVE dup_lines(_, _, _)
dup_lines(str, ls, idx) ==
    IF idx > Len(ls) THEN str
    ELSE LET with_line == dup_line(str, ls[idx])
         IN  dup_lines(IF Len(ls) - 1 # idx - 1 THEN push(with_line, NL) ELSE with_line,
                       ls, idx + 1)

\* String::as_bytes of a sequence of chars U+0000..U+00FF (b as char)
RECURSIVE as_bytes(_)
as_bytes(str) ==
    IF str = <<>> THEN <<>>
    ELSE (IF Head(str) < 128 THEN <<Head(str)>>
          ELSE <<192 + (Head(str) \div 64), 128 + (Head(str) % 64)>>)
         \o as_bytes(Tail(str))

\* duplicate_bytes_in_lines, from the bytes of contents to those of new_contents
duplicate_bytes_in_lines(contents) ==
    LET new_line_end == contents # <<>> /\ contents[Len(contents)] = NL
        body == dup_lines(<<>>, lines(contents), 1)
    IN  as_bytes(IF new_line_end THEN push(body, NL) ELSE body)

\* mess_up_file: the file system after it.  An error (filename cannot be opened,
\* its contents are not UTF-8) is returned before path.zip is created.
mess_up_file(disk, filename) ==
    IF filename \notin DOMAIN disk THEN disk
    ELSE IF ~Utf8Valid(disk[filename]) THEN disk
    ELSE (ZipName(filename) :> duplicate_bytes_in_lines(disk[filename])) @@ disk

(***************************************************************************)
(* rotate_file: the files it works on.                                     *)
(***************************************************************************)
\* glob(path + "*"): the existing names that start with path
glob(disk, path) == {n \in DOMAIN disk : IsPrefix(path, n)}

\* rotate_files with the slot pushed also when the files found fill max_files
rotate_files_inclusive(disk, path, max_files) ==
    LET found == SortNames(glob(disk, path))
    IN  IF Len(found) <= max_files
        THEN Append(found, path \o <<DOT>> \o to_string(Len(found)))
        ELSE found

\* files after files.sort() and the push of the new slot path.<files.len()>
rotate_files(disk, path, max_files) ==
    LET found == SortNames(glob(disk, path))
    IN  IF Len(found) < max_files
        THEN Append(found, path \o <<DOT>> \o to_string(Len(found)))
        ELSE found

\* the compress step: mess_up_file runs when the files found fill max_files
rotate_compress(disk, path, max_files, compress) ==
    IF compress /\ max_files <= Cardinality(glob(disk, path))
    THEN mess_up_file(disk, path)
    ELSE disk

\* fs::copy(from, to) with from an existing file
copy(disk, from, to) == (to :> disk[from]) @@ disk

\* File::create without the set_len(0), on a file opened without truncation
truncate_skipped(disk, path) ==
    IF path \in DOMAIN disk THEN disk ELSE (path :> <<>>) @@ disk

\* fs::File::create(path).unwrap().set_len(0)
truncate(disk, path) == (path :> <<>>) @@ disk

(***************************************************************************)
(* State.                                                                  *)
(***************************************************************************)
VARIABLES
    cfg,        \* Conf.files: the sequence of RotatedFile records (funrotate.toml)
    fs,         \* the file system: existing name -> contents
    statefile,  \* .last_rotation: NoFile or path -> timestamp string
    clock,      \* Utc::now().timestamp()
    period,     \* seconds between two runs of the program (its scheduler)
    runs,       \* runs started so far
    pc,         \* where the run is
    idx,        \* main's loop over rotate_config.files (1-based)
    entries,    \* RotationRecorder.entries
    updated,    \* RotationRecorder.updated
    files,      \* rotate_file's files
    i,          \* rotate_file's i
    fs0,        \* history: the file system when rotate_file was last entered
    wrote,      \* history: save wrote the state file in this run
    rotated,    \* history: path -> the time update_rotation_time got in this run
    result,     \* history: the last trigger evaluated, with the rotation time used
    prev        \* history: rotated of the run before, when that run ended in "done"

vars == <<cfg, fs, statefile, clock, period, runs, pc, idx, entries, updated,
          files, i, fs0, wrote, rotated, result, prev>>

NoResult == [path |-> <<>>, rotation_time |-> 0, on_time |-> "none", triggered |-> "none"]

Stopped == {"idle", "done", "exit1", "panic"}

file == cfg[idx]

(***************************************************************************)
(* The environment: the application appends to its log, the scheduler      *)
(* starts the program.                                                     *)
(***************************************************************************)
LogBytes == {97, NL}

LogWrite(t, b) ==
    /\ pc \in Stopped
    /\ runs < MaxRuns
    /\ cfg[t].path \in DOMAIN fs
    /\ Len(fs[cfg[t].path]) < MaxLen
    /\ fs' = [fs EXCEPT ![cfg[t].path] = Append(@, b)]
    /\ UNCHANGED <<cfg, statefile, clock, period, runs, pc, idx, entries, updated,
                   files, i, fs0, wrote, rotated, result, prev>>

StartRun ==
    /\ pc \in Stopped
    /\ runs < MaxRuns
    /\ runs' = runs + 1
    /\ clock' = clock + period
    /\ pc' = "load"
    /\ idx' = 1
    /\ entries' = EmptyMap
    /\ updated' = FALSE
    /\ files' = <<>>
    /\ i' = 0
    /\ fs0' = fs
    /\ wrote' = FALSE
    /\ rotated' = EmptyMap
    /\ result' = NoResult
    /\ prev' = IF pc = "done" THEN rotated ELSE EmptyMap
    /\ UNCHANGED <<cfg, fs, statefile, period>>

(***************************************************************************)
(* main.                                                                   *)
(***************************************************************************)
\* RotationRecorder::new and main's unwrap_or_else: a state file that cannot be
\* opened is an error, and main exits with status 1
Load ==
    /\ pc = "load"
    /\ IF statefile = NoFile
       THEN /\ pc' = "exit1"
            /\ UNCHANGED <<entries, updated>>
       ELSE /\ entries' = statefile.rows
            /\ updated' = FALSE
            /\ pc' = IF cfg = <<>> THEN "save" ELSE "check"
    /\ UNCHANGED <<cfg, fs, statefile, clock, period, runs, idx, files, i, fs0,
                   wrote, rotated, result, prev>>

\* the position after the file at idx is dealt with
AfterFile == IF idx + 1 > Len(cfg) THEN "save" ELSE "check"

\* the time trigger with its expect("invalid interval name"): "panic", "true" or
\* "false"
time_trigger(rotation_time, f, now) ==
    IF f.interval \notin DOMAIN INTERVALS THEN "panic"
    ELSE IF is_rotation_triggered_on_time(rotation_time, f, now) THEN "true"
    ELSE "false"

\* the size trigger with its expect("cannot read file metadata")
size_trigger(f, disk) ==
    IF f.path \notin DOMAIN disk THEN "panic"
    ELSE IF is_rotation_triggered_due_to_size(f, disk) THEN "true"
    ELSE "false"

\* is_rotation_triggered: || evaluates the size trigger only when the time trigger
\* is false
is_rotation_triggered(ents, f, disk, now) ==
    LET on_time == time_trigger(last_rotation_time(ents, f.path), f, now)
    IN  IF on_time = "false" THEN size_trigger(f, disk) ELSE on_time

Trigger ==
    /\ pc = "check"
    /\ LET t == is_rotation_triggered(entries, file, fs, clock)
       IN  /\ pc' = IF t = "panic" THEN "panic"
                     ELSE IF t = "true" THEN "rotate"
                     ELSE AfterFile
           /\ idx' = IF t = "false" THEN idx + 1 ELSE idx
           /\ result' = [path |-> file.path,
                         rotation_time |-> last_rotation_time(entries, file.path),
                         on_time |-> time_trigger(last_rotation_time(entries, file.path),
                                                  file, clock),
                         triggered |-> t]
    /\ UNCHANGED <<cfg, fs, statefile, clock, period, runs, entries, updated,
                   files, i, fs0, wrote, rotated, prev>>

\* rotate_file without the return on files_count == 0
RotateBegin_NoReturn ==
    /\ pc = "rotate"
    /\ fs0' = fs
    /\ files' = rotate_files(fs, file.path, file.max_files)
    /\ i' = Len(files') - 1
    /\ fs' = rotate_compress(fs, file.path, file.max_files, file.compress)
    /\ pc' = "copy"
    /\ UNCHANGED <<cfg, statefile, clock, period, runs, idx, entries, updated,
                   wrote, rotated, result, prev>>

\* rotate_file with the truncation of the strategy done before the copies
RotateBegin_TruncateFirst ==
    /\ pc = "rotate"
    /\ fs0' = fs
    /\ IF glob(fs, file.path) = {}
       THEN /\ pc' = "update"
            /\ UNCHANGED <<fs, files, i>>
       ELSE /\ files' = rotate_files(fs, file.path, file.max_files)
            /\ i' = Len(files') - 1
            /\ fs' = IF file.strategy \in DOMAIN STRATEGY
                        /\ STRATEGY[file.strategy] = "CopyTruncate"
                     THEN truncate(rotate_compress(fs, file.path, file.max_files,
                                                   file.compress), file.path)
                     ELSE rotate_compress(fs, file.path, file.max_files,
                                          file.compress)
            /\ pc' = "copy"
    /\ UNCHANGED <<cfg, statefile, clock, period, runs, idx, entries, updated,
                   wrote, rotated, result, prev>>

\* rotate_file up to its copy loop: glob, sort, the new slot, the compression
RotateBegin ==
    /\ pc = "rotate"
    /\ fs0' = fs
    /\ IF glob(fs, file.path) = {}
       THEN /\ pc' = "update"
            /\ UNCHANGED <<fs, files, i>>
       ELSE /\ files' = rotate_files(fs, file.path, file.max_files)
            /\ i' = Len(files') - 1
            /\ fs' = rotate_compress(fs, file.path, file.max_files, file.compress)
            /\ pc' = "copy"
    /\ UNCHANGED <<cfg, statefile, clock, period, runs, idx, entries, updated,
                   wrote, rotated, result, prev>>

\* one pass of `while i != 0`: files[i - 1] is copied to files[i] (0-based)
CopyStep ==
    /\ pc = "copy"
    /\ i # 0
    /\ IF files[i] \in DOMAIN fs
       THEN /\ fs' = copy(fs, files[i], files[i + 1])
            /\ i' = i - 1
            /\ pc' = "copy"
       ELSE /\ pc' = "panic"
            /\ UNCHANGED <<fs, i>>
    /\ UNCHANGED <<cfg, statefile, clock, period, runs, idx, entries, updated,
                   files, fs0, wrote, rotated, result, prev>>

\* the end of rotate_file with a strategy name that is not known taken as
\* copytruncate
ApplyStrategy_DefaultTruncate ==
    /\ pc = "copy"
    /\ i = 0
    /\ pc' = "update"
    /\ fs' = IF file.strategy = "nocopytruncate" THEN fs ELSE truncate(fs, file.path)
    /\ UNCHANGED <<cfg, statefile, clock, period, runs, idx, entries, updated,
                   files, i, fs0, wrote, rotated, result, prev>>

\* the end of rotate_file: the strategy is looked up after the copies
ApplyStrategy ==
    /\ pc = "copy"
    /\ i = 0
    /\ IF file.strategy \notin DOMAIN STRATEGY
       THEN /\ pc' = "panic"
            /\ UNCHANGED fs
       ELSE /\ pc' = "update"
            /\ fs' = IF STRATEGY[file.strategy] = "CopyTruncate"
                     THEN truncate(fs, file.path)
                     ELSE fs
    /\ UNCHANGED <<cfg, statefile, clock, period, runs, idx, entries, updated,
                   files, i, fs0, wrote, rotated, result, prev>>

\* rotate, after rotate_file: last_rotations.update_rotation_time(f.path, Utc::now())
Update ==
    /\ pc = "update"
    /\ entries' = update_rotation_time(entries, file.path, clock)
    /\ updated' = TRUE
    /\ rotated' = (file.path :> clock) @@ rotated
    /\ idx' = idx + 1
    /\ pc' = AfterFile
    /\ UNCHANGED <<cfg, fs, statefile, clock, period, runs, files, i, fs0, wrote,
                   result, prev>>

\* last_rotation_info.save()
Save ==
    /\ pc = "save"
    /\ IF save_writes(updated)
       THEN /\ statefile' = StateFile(entries)
            /\ wrote' = TRUE
       ELSE UNCHANGED <<statefile, wrote>>
    /\ pc' = "done"
    /\ UNCHANGED <<cfg, fs, clock, period, runs, idx, entries, updated, files, i,
                   fs0, rotated, result, prev>>

Next ==
    \/ \E t \in 1..Len(cfg), b \in LogBytes : LogWrite(t, b)
    \/ StartRun
    \/ Load
    \/ Trigger
    \/ RotateBegin
    \/ CopyStep
    \/ ApplyStrategy
    \/ Update
    \/ Save

(***************************************************************************)
(* Initial states.                                                         *)
(***************************************************************************)
PathA == <<97>>
PathB == <<98>>

\* 2026-11-01 00:00, in minutes since 1999-01-01 00:00
BaseMinute == 10166 * 1440

RotatedFile(path, interval, strategy, max_files, compress, size) ==
    [path |-> path, interval |-> interval, strategy |-> strategy,
     max_files |-> max_files, compress |-> compress, size |-> size]

\* the contents the application may have written: at most n bytes of LogBytes
RECURSIVE LogContents(_)
LogContents(n) ==
    IF n = 0 THEN {<<>>}
    ELSE LogContents(n - 1)
         \cup {Append(c, b) : c \in {d \in LogContents(n - 1) : Len(d) = n - 1},
                              b \in LogBytes}

\* The files of path after g earlier rotations: the live file and the generations
\* path.1 .. path.g, each holding a log of its own.  g = -1: no file at all.
GenFiles(path, g, live) ==
    [n \in {GenName(path, k) : k \in 0..g} |->
        IF n = path THEN live
        ELSE <<97 + (CHOOSE k \in 1..g : GenName(path, k) = n)>>]

StrategyNames == DOMAIN STRATEGY \cup {"move"}

InitRun ==
    /\ runs = 0
    /\ pc = "idle"
    /\ idx = 1
    /\ entries = EmptyMap
    /\ updated = FALSE
    /\ files = <<>>
    /\ i = 0
    /\ fs0 = fs
    /\ wrote = FALSE
    /\ rotated = EmptyMap
    /\ result = NoResult
    /\ prev = EmptyMap

\* One file, never rotated before according to the state file and run hourly:
\* every run rotates it.  The strategy, max_files, compress and the files found
\* vary.
InitRotate ==
    /\ \E strategy \in StrategyNames, compress \in BOOLEAN,
          max_files \in {1, 2, 3, MaxGen, MaxGen + 1} :
          cfg = <<RotatedFile(PathA, "hourly", strategy, max_files, compress, 0)>>
    /\ \E g \in {-1, 0, 1, 2, MaxGen - 1, MaxGen}, live \in LogContents(MaxLen) :
          /\ g + 1 <= cfg[1].max_files
          /\ g = -1 => live = <<>>
          /\ fs = GenFiles(PathA, g, live)
    /\ statefile = StateFile(EmptyMap)
    /\ clock = BaseMinute * 60
    /\ period = 3600
    /\ InitRun

SpecRotate == InitRotate /\ [][Next]_vars

\* as InitRotate, starting from a target of which only the live file exists
InitFresh == InitRotate /\ DOMAIN fs = {PathA}

SpecFresh == InitFresh /\ [][Next]_vars

(***************************************************************************)
(* Rotation: what rotate_file leaves behind.                               *)
(***************************************************************************)
Min(a, b) == IF a <= b THEN a ELSE b

\* rotate_file has returned and rotate is about to record the rotation
Rotated == pc = "update"

live == file.path

Gen(k) == GenName(file.path, k)

\* the highest m with generations 0..m of path all present on disk (-1: none)
LastGen(disk, path) ==
    CHOOSE m \in -1..Cardinality(DOMAIN disk) :
        /\ \A k \in 0..m : GenName(path, k) \in DOMAIN disk
        /\ GenName(path, m + 1) \notin DOMAIN disk

CopyTruncates ==
    file.strategy \in DOMAIN STRATEGY /\ STRATEGY[file.strategy] = "CopyTruncate"

\* C5 as stated: for every max_files >= 1, after a CopyTruncate rotation of an
\* existing live file the live file is empty and path.1 holds the bytes the live
\* file held before.
C5_Original ==
    (Rotated /\ CopyTruncates /\ file.max_files >= 1 /\ live \in DOMAIN fs0)
        => /\ live \in DOMAIN fs
           /\ fs[live] = <<>>
           /\ Gen(1) \in DOMAIN fs
           /\ fs[Gen(1)] = fs0[live]

\* C5, amended: the same for every max_files >= 2 (with max_files = 1 and only the
\* live file on disk there is no path.1: the live file is truncated and nothing
\* else is written).
C5_CopyTruncate ==
    (Rotated /\ CopyTruncates /\ file.max_files >= 2 /\ live \in DOMAIN fs0)
        => /\ live \in DOMAIN fs
           /\ fs[live] = <<>>
           /\ Gen(1) \in DOMAIN fs
           /\ fs[Gen(1)] = fs0[live]

C5_Witness ==
    /\ Rotated
    /\ CopyTruncates
    /\ file.max_files >= 2
    /\ live \in DOMAIN fs0
    /\ fs0[live] # <<>>
    /\ fs[live] = <<>>
    /\ fs[Gen(1)] = fs0[live]

\* C6: shift-up by one.  With generations 0..m on disk before the rotation, after
\* it every generation k, 1 <= k <= min(m + 1, max_files - 1), holds the bytes
\* generation k - 1 held before, for every max_files (also above 10).
C6_ShiftUpByOne ==
    (Rotated /\ live \in DOMAIN fs0)
        => \A k \in 1..Min(LastGen(fs0, live) + 1, file.max_files - 1) :
              /\ Gen(k) \in DOMAIN fs
              /\ fs[Gen(k)] = fs0[Gen(k - 1)]

\* C7: at most max_files files match path* at any time, whatever the strategy and
\* compress, when the rotations start from the live file alone (the first half of
\* the claim; the second half is about the same rotations).
C7_AtMostN == Cardinality(glob(fs, cfg[1].path)) <= cfg[1].max_files

\* C8: when no file matches path*, rotate_file returns (no panic) and leaves the
\* file system as it was.
C8_NoFilesNoOp ==
    [][(pc = "rotate" /\ glob(fs, file.path) = {}) => (pc' = "update" /\ fs' = fs)]_vars

C8_Witness ==
    /\ Rotated
    /\ glob(fs0, live) = {}
    /\ fs = fs0
    /\ file.compress
    /\ CopyTruncates

(***************************************************************************)
(* The triggers on their own: the inputs are drawn by the initial state,   *)
(* one step evaluates the function.                                        *)
(***************************************************************************)
InitEval ==
    /\ period = 0
    /\ runs = 0
    /\ pc = "eval"
    /\ idx = 1
    /\ updated = FALSE
    /\ files = <<>>
    /\ i = 0
    /\ fs0 = fs
    /\ wrote = FALSE
    /\ rotated = EmptyMap
    /\ result = NoResult
    /\ prev = EmptyMap

\* the stored minutes: the base minute and the MaxMinute minutes after it
StoredMinutes == {BaseMinute + m : m \in 0..MaxMinute}

\* the clock, sampled within MaxSkew seconds of every interval boundary after a
\* rotation time the recorder can answer
TimeInputs ==
    {base + IntervalSeconds(INTERVALS[n]) + d :
        base \in {NeverRotated} \cup {parse_time(m) : m \in StoredMinutes},
        n \in DOMAIN INTERVALS,
        d \in (0 - MaxSkew)..MaxSkew}

InitTime ==
    /\ \E interval \in DOMAIN INTERVALS :
          cfg = <<RotatedFile(PathA, interval, "copytruncate", 1, FALSE, 0)>>
    /\ fs = GenFiles(PathA, 0, <<>>)
    /\ statefile = NoFile
    /\ entries \in {EmptyMap} \cup {(PathB :> BaseMinute)}
                    \cup {(PathA :> m) : m \in StoredMinutes}
                    \cup {(PathA :> m) @@ (PathB :> BaseMinute) : m \in StoredMinutes}
    /\ clock \in TimeInputs
    /\ InitEval

\* is_rotation_triggered's first two statements: the recorder is asked for the
\* rotation time, the time trigger is evaluated
EvalOnTime ==
    /\ pc = "eval"
    /\ pc' = "evaluated"
    /\ result' = [path |-> file.path,
                  rotation_time |-> last_rotation_time(entries, file.path),
                  on_time |-> time_trigger(last_rotation_time(entries, file.path),
                                           file, clock),
                  triggered |-> time_trigger(last_rotation_time(entries, file.path),
                                             file, clock)]
    /\ UNCHANGED <<cfg, fs, statefile, clock, period, runs, idx, entries, updated,
                   files, i, fs0, wrote, rotated, prev>>

SpecTime == InitTime /\ [][EvalOnTime]_vars

RECURSIVE Filled(_)
Filled(n) == IF n = 0 THEN <<>> ELSE Append(Filled(n - 1), 97)

InitSize ==
    /\ \E size \in 0..MaxSize :
          cfg = <<RotatedFile(PathA, "hourly", "copytruncate", 1, FALSE, size)>>
    /\ \E len \in -1..MaxSize :
          fs = IF len = -1 THEN GenFiles(PathA, -1, <<>>)
               ELSE GenFiles(PathA, 0, Filled(len))
    /\ statefile = NoFile
    /\ entries = EmptyMap
    /\ clock = BaseMinute * 60
    /\ InitEval

EvalSize ==
    /\ pc = "eval"
    /\ pc' = "evaluated"
    /\ result' = [path |-> file.path, rotation_time |-> 0, on_time |-> "none",
                  triggered |-> size_trigger(file, fs)]
    /\ UNCHANGED <<cfg, fs, statefile, clock, period, runs, idx, entries, updated,
                   files, i, fs0, wrote, rotated, prev>>

SpecSize == InitSize /\ [][EvalSize]_vars

\* the interval lengths as the specification gives them, in seconds
SpecSeconds(interval) ==
    CASE interval = "hourly" -> 3600
      [] interval = "daily" -> 86400
      [] interval = "weekly" -> 604800
      [] interval = "monthly" -> 2592000

\* C3: the time trigger is true iff now >= lastRotationTime + d, d being 1 hour,
\* 24 hours, 7 days or 30 days; now = lastRotationTime + d is due.
C3_DueByTime ==
    pc = "evaluated"
        => (result.triggered = "true"
               <=> clock >= result.rotation_time + SpecSeconds(file.interval))

C3_Witness ==
    /\ pc = "evaluated"
    /\ file.interval = "monthly"
    /\ file.path \in DOMAIN entries
    /\ clock = parse_time(entries[file.path]) + SpecSeconds(file.interval)
    /\ result.triggered = "true"

\* C4: the size trigger of an existing file of S bytes is true iff S > T; a file
\* of exactly T bytes (also T = 0 and an empty file) does not trigger.
C4_DueBySize ==
    (pc = "evaluated" /\ file.path \in DOMAIN fs)
        => (result.triggered = "true" <=> Len(fs[file.path]) > file.size)

C4_Witness ==
    /\ pc = "evaluated"
    /\ file.path \in DOMAIN fs
    /\ file.size = 0
    /\ fs[file.path] = <<>>
    /\ result.triggered = "false"

\* C10: the recorder answers with the stored timestamp for a path it has, and with
\* 1999-01-01 01:02:03 for a path it has not; for such a path the time trigger is
\* true for every interval once the clock is past that time plus 30 days.
C10_LastRotationTime ==
    pc = "evaluated"
        => /\ file.path \in DOMAIN entries
                => result.rotation_time = entries[file.path] * 60
           /\ file.path \notin DOMAIN entries
                => /\ result.rotation_time = 3723
                   /\ clock > 3723 + 2592000 => result.triggered = "true"

C10_Witness ==
    /\ pc = "evaluated"
    /\ file.path \notin DOMAIN entries
    /\ entries # EmptyMap
    /\ file.interval = "hourly"
    /\ clock = 3723 + 2592000 + 1
    /\ result.triggered = "true"

(***************************************************************************)
(* The whole program: one or two configured files, a state file that is    *)
(* absent, empty or holds earlier rotation times, a scheduler that runs    *)
(* the program every half hour or every hour.                              *)
(***************************************************************************)
FileA(interval, size) == RotatedFile(PathA, interval, "copytruncate", 2, FALSE, size)

FileB == RotatedFile(PathB, "weekly", "nocopytruncate", 1, TRUE, 0)

Init ==
    /\ \E interval \in {"hourly", "daily"}, size \in {0, MaxLen} :
          cfg \in {<<FileA(interval, size)>>, <<FileA(interval, size), FileB>>}
    /\ \E g \in {-1, 0}, c \in LogContents(MaxLen) :
          /\ g = -1 => c = <<>>
          /\ fs = IF Len(cfg) = 1 THEN GenFiles(PathA, g, c)
                  ELSE GenFiles(PathA, g, c) @@ GenFiles(PathB, 0, <<>>)
    /\ statefile \in {NoFile, StateFile(EmptyMap), StateFile((PathA :> BaseMinute)),
                      StateFile((PathA :> BaseMinute) @@ (PathB :> BaseMinute))}
    /\ clock = (BaseMinute * 60) + 30
    /\ period \in {1800, 3600}
    /\ InitRun

Spec == Init /\ [][Next]_vars

\* C1: save writes nothing when update_rotation_time was not called since the
\* load, and writes every current record when it was: after save the state file
\* holds exactly the in-memory records.
C1_SaveIffUpdated ==
    pc = "done"
        => /\ ~updated => ~wrote
           /\ updated => (wrote /\ statefile = StateFile(entries))

\* the configured file of a path
Configured(p) == cfg[CHOOSE k \in 1..Len(cfg) : cfg[k].path = p]

\* C2: a run that completes and rotates T at time t leaves T's path with that
\* time (at the format's precision) in the state file, and a following run
\* started before t + interval does not find T due by time.
C2_RotationPersisted ==
    /\ pc = "done"
          => \A p \in DOMAIN rotated :
                /\ statefile.present
                /\ p \in DOMAIN statefile.rows
                /\ statefile.rows[p] = format_time(rotated[p])
    /\ (result.path \in DOMAIN prev
          /\ clock < prev[result.path] + SpecSeconds(Configured(result.path).interval))
          => result.on_time # "true"

\* C9: a missing state file does not end the run: the load gives an empty
\* recorder and the run goes on to its files.
C9_MissingStateFileNotFatal ==
    (~statefile.present /\ pc \notin {"idle", "load"})
        => /\ pc # "exit1"
           /\ entries = EmptyMap \/ updated

(***************************************************************************)
(* The store and its file.                                                 *)
(***************************************************************************)
\* C11: the records update_rotation_time wrote in a run that save ended are what
\* the next run's load reads back: last_rotation_time gives, for each path
\* written, the time written at the precision of a minute, and for every path of
\* which the state file has no record the time of NeverRotated.
C11_RoundTrip ==
    (pc = "check" /\ ~updated)
        => /\ \A p \in DOMAIN prev :
                 last_rotation_time(entries, p) = parse_time(format_time(prev[p]))
           /\ \A p \in {PathA, PathB} \ DOMAIN statefile.rows :
                 last_rotation_time(entries, p) = NeverRotated

\* The recorder on its own: records are loaded, then update_rotation_time is
\* called for any path at any time of a clock that does not go back.
MaxTicks == 3

InitStore ==
    /\ \E ps \in SUBSET {PathA, PathB} :
          \E rows \in [ps -> {BaseMinute - 1, BaseMinute}] :
             /\ statefile = StateFile(rows)
             /\ entries = rows
    /\ cfg = <<>>
    /\ fs = EmptyMap
    /\ clock = (BaseMinute * 60) + 30
    /\ period = 30
    /\ runs = 0
    /\ pc = "update"
    /\ idx = 1
    /\ updated = FALSE
    /\ files = <<>>
    /\ i = 0
    /\ fs0 = fs
    /\ wrote = FALSE
    /\ rotated = EmptyMap
    /\ result = NoResult
    /\ prev = EmptyMap

Tick ==
    /\ clock + period <= (BaseMinute * 60) + 30 + (MaxTicks * period)
    /\ clock' = clock + period
    /\ UNCHANGED <<cfg, fs, statefile, period, runs, pc, idx, entries, updated,
                   files, i, fs0, wrote, rotated, result, prev>>

StoreUpdate(path) ==
    /\ entries' = update_rotation_time(entries, path, clock)
    /\ updated' = TRUE
    /\ rotated' = (path :> clock) @@ rotated
    /\ UNCHANGED <<cfg, fs, statefile, clock, period, runs, pc, idx, files, i, fs0,
                   wrote, result, prev>>

NextStore ==
    \/ Tick
    \/ \E path \in {PathA, PathB} : StoreUpdate(path)

SpecStore == InitStore /\ [][NextStore]_vars

\* the records hold, for a path updated since the load, the time of its last
\* update, and for any other path what was loaded
StoreHoldsLatest ==
    /\ DOMAIN entries = DOMAIN statefile.rows \cup DOMAIN rotated
    /\ \A p \in DOMAIN rotated : entries[p] = format_time(rotated[p])
    /\ \A p \in DOMAIN entries \ DOMAIN rotated : entries[p] = statefile.rows[p]

\* C12: after any calls of update_rotation_time the recorder has one record per
\* path updated, with the time of the last call for that path, and the records
\* of the other paths as they were; with a clock that does not go back the time
\* recorded for a path never decreases.
C12_LastWriterWins ==
    [][/\ StoreHoldsLatest'
       /\ \A p \in DOMAIN entries :
             /\ p \in DOMAIN entries'
             /\ parse_time(entries'[p]) >= parse_time(entries[p])]_vars

C12_Witness ==
    /\ {PathA, PathB} \subseteq DOMAIN statefile.rows
    /\ DOMAIN rotated = {PathA}
    /\ entries[PathA] = BaseMinute + 2
    /\ entries[PathB] = BaseMinute - 1

(***************************************************************************)
(* mess_up_file on its own: a file of any bytes is "compressed".           *)
(***************************************************************************)
MaxDupLen == 4

\* 'a', 'b', "\n" and the two bytes of U+00E9
DupBytes == {97, 98, NL, 195, 169}

RECURSIVE DupContents(_)
DupContents(n) ==
    IF n = 0 THEN {<<>>}
    ELSE DupContents(n - 1)
         \cup {Append(c, b) : c \in {d \in DupContents(n - 1) : Len(d) = n - 1},
                              b \in DupBytes}

InitDup ==
    /\ cfg = <<RotatedFile(PathA, "hourly", "copytruncate", 1, TRUE, 0)>>
    /\ \E c \in DupContents(MaxDupLen) : fs = (PathA :> c)
    /\ statefile = StateFile(EmptyMap)
    /\ clock = BaseMinute * 60
    /\ period = 3600
    /\ runs = 0
    /\ pc = "compress"
    /\ idx = 1
    /\ entries = EmptyMap
    /\ updated = FALSE
    /\ files = <<>>
    /\ i = 0
    /\ fs0 = fs
    /\ wrote = FALSE
    /\ rotated = EmptyMap
    /\ result = NoResult
    /\ prev = EmptyMap

MessUp ==
    /\ pc = "compress"
    /\ fs' = mess_up_file(fs, file.path)
    /\ pc' = "compressed"
    /\ UNCHANGED <<cfg, statefile, clock, period, runs, idx, entries, updated,
                   files, i, fs0, wrote, rotated, result, prev>>

SpecDup == InitDup /\ [][MessUp]_vars

\* every byte twice in place, each "\n" once
RECURSIVE EachByteTwice(_)
EachByteTwice(s) ==
    IF s = <<>> THEN <<>>
    ELSE (IF Head(s) = NL THEN <<NL>> ELSE <<Head(s), Head(s)>>)
         \o EachByteTwice(Tail(s))

\* C13: duplicate_bytes_in_lines gives, for every text, the text in which each
\* byte of each line stands twice in place, with the lines, their order, the
\* single "\n" between them and the presence of a final "\n" as in the input;
\* an empty text and empty lines included.
C13_EachByteTwice ==
    (pc = "compressed" /\ Utf8Valid(fs[PathA]))
        => /\ ZipName(PathA) \in DOMAIN fs
           /\ fs[ZipName(PathA)] = EachByteTwice(fs[PathA])

(***************************************************************************)
(* Rotation: slots, the transform, the strategy.                           *)
(***************************************************************************)
\* the names rotate_file works on
FileNames == {files[k] : k \in 1..Len(files)}

\* the number of files glob(path + "*") matched when rotate_file was entered
files_count == Cardinality(glob(fs0, file.path))

\* C14: rotate_file, with c files matched, works on one name more, path.c, when
\* c < max_files and on the matched names alone when c >= max_files; from a
\* target of which only the live file exists, without compress, the files
\* matching path* after k rotations number min(k + 1, max_files).
C14_SlotGrowth ==
    /\ pc = "copy"
          => IF files_count < file.max_files
             THEN /\ Len(files) = files_count + 1
                  /\ FileNames \ glob(fs0, file.path) = {Gen(files_count)}
             ELSE /\ Len(files) = files_count
                  /\ FileNames = glob(fs0, file.path)
    /\ (Rotated /\ ~file.compress)
          => Cardinality(glob(fs, file.path)) = Min(runs + 1, file.max_files)

C14_Witness ==
    /\ Rotated
    /\ ~file.compress
    /\ runs = 3
    /\ file.max_files = 3
    /\ Cardinality(glob(fs, file.path)) = 3
    /\ files_count = 3

\* the compress step ran in the rotate_file that has returned
TransformApplied == file.compress /\ file.max_files <= files_count

\* C15: rotate_file runs the compression exactly when compress is set and the
\* files matched fill max_files; it reads the live file before any copy or
\* truncation, and after every such rotate_file, the first and any later one,
\* path.zip holds duplicate_bytes_in_lines of the bytes the live file had before.
C15_TransformAtCapacity ==
    (Rotated /\ live \in DOMAIN fs0)
        => IF TransformApplied
           THEN /\ ZipName(live) \in DOMAIN fs
                /\ fs[ZipName(live)] = duplicate_bytes_in_lines(fs0[live])
           ELSE ZipName(live) \notin DOMAIN fs0 => ZipName(live) \notin DOMAIN fs

\* C16: with nocopytruncate rotate_file leaves the live file as it was, byte for
\* byte, while the copies are still shifted; the live file is truncated only
\* with copy, copytruncate or create, and not before the strategy is applied.
C16_FrameByStrategy ==
    /\ (Rotated /\ live \in DOMAIN fs0)
          => IF file.strategy = "nocopytruncate"
             THEN /\ fs[live] = fs0[live]
                  /\ Gen(1) \in FileNames => fs[Gen(1)] = fs0[live]
             ELSE /\ file.strategy \in {"copy", "copytruncate", "create"}
                  /\ fs[live] = <<>>
    /\ (pc = "copy" /\ live \in DOMAIN fs0) => fs[live] = fs0[live]

C16_Witness ==
    /\ Rotated
    /\ file.strategy = "nocopytruncate"
    /\ Gen(1) \in DOMAIN fs0
    /\ fs0[live] # <<>>
    /\ fs[live] = fs0[live]
    /\ fs[Gen(1)] = fs0[live]
    /\ fs0[Gen(1)] # fs0[live]

\* C17: a file of the configuration that does not exist is never skipped or
\* taken as rotated: whatever its last rotation time, the evaluation of its
\* trigger ends in a panic, and no rotation time is recorded for it.
C17_MissingFileFatal ==
    \A k \in 1..Len(cfg) :
        cfg[k].path \notin DOMAIN fs
            => /\ cfg[k].path \notin DOMAIN rotated
               /\ (result.path = cfg[k].path /\ result.triggered # "none")
                     => result.triggered = "panic"

(***************************************************************************)
(* A copy that fails.                                                      *)
(***************************************************************************)
\* fs::copy returns an error and the expect("cannot copy files") panics, with
\* the error logged instead and the loop going on
CopyFail_Logged(k) ==
    /\ pc = "copy"
    /\ i # 0
    /\ files[i] \in DOMAIN fs
    /\ k \in -1..Len(fs[files[i]])
    /\ fs' = IF k = -1 THEN fs
             ELSE (files[i + 1] :> SubSeq(fs[files[i]], 1, k)) @@ fs
    /\ pc' = "copy"
    /\ i' = i - 1
    /\ UNCHANGED <<cfg, statefile, clock, period, runs, idx, entries, updated,
                   files, fs0, wrote, rotated, result, prev>>

\* fs::copy(files[i - 1], files[i]) returns an error (disk full, permissions)
\* and the expect("cannot copy files") panics.  The destination is untouched
\* (k = -1) or left with the first k bytes of the source.
CopyFail(k) ==
    /\ pc = "copy"
    /\ i # 0
    /\ files[i] \in DOMAIN fs
    /\ k \in -1..Len(fs[files[i]])
    /\ fs' = IF k = -1 THEN fs
             ELSE (files[i + 1] :> SubSeq(fs[files[i]], 1, k)) @@ fs
    /\ pc' = "panic"
    /\ UNCHANGED <<cfg, statefile, clock, period, runs, idx, entries, updated,
                   files, i, fs0, wrote, rotated, result, prev>>

NextFault ==
    \/ Next
    \/ \E k \in -1..MaxLen : CopyFail(k)

\* Two targets; the first is rotated in every run, with two or three files to
\* shift.
InitFault ==
    /\ \E strategy \in {"copytruncate", "nocopytruncate"}, max_files \in {2, 3} :
          cfg = <<RotatedFile(PathA, "hourly", strategy, max_files, FALSE, 0),
                  FileB>>
    /\ \E g \in {1, 2}, c \in LogContents(MaxLen) :
          /\ g + 1 <= cfg[1].max_files
          /\ fs = GenFiles(PathA, g, c) @@ GenFiles(PathB, 0, <<>>)
    /\ statefile = StateFile(EmptyMap)
    /\ clock = BaseMinute * 60
    /\ period = 3600
    /\ InitRun

SpecFault == InitFault /\ [][NextFault]_vars

\* the pass of the copy loop went through
CopySucceeded ==
    /\ fs' = copy(fs, files[i], files[i + 1])
    /\ i' = i - 1
    /\ pc' = "copy"

\* the state a failed copy of files[i - 1] to files[i] (0-based) leaves
AbortedInShift ==
    /\ pc = "panic"
    /\ \A j \in (i + 2)..Len(files) : fs[files[j]] = fs0[files[j - 1]]
    /\ \A j \in 1..i : fs[files[j]] = fs0[files[j]]
    /\ fs[live] = fs0[live]
    /\ \A k \in idx..Len(cfg) : cfg[k].path \notin DOMAIN rotated
    /\ \A k \in (idx + 1)..Len(cfg) :
          \A n \in glob(fs, cfg[k].path) : n \in DOMAIN fs0 /\ fs[n] = fs0[n]
    /\ entries = statefile.rows @@ [p \in DOMAIN rotated |-> format_time(rotated[p])]
    /\ ~wrote

\* C18: when the copy of index i - 1 to index i fails the run ends in a panic
\* with nothing rolled back: the files above i hold what was shifted into them,
\* those up to i - 1 and the live file what they held before the rotation, the
\* live file is not truncated, no rotation time is recorded for the file, the
\* files after it in the configuration are not dealt with, and the state file
\* is not written.
C18_CopyFailureAborts ==
    [][(pc = "copy" /\ i # 0 /\ ~CopySucceeded) => (i' = i /\ AbortedInShift')]_vars

C18_Witness ==
    /\ pc = "panic"
    /\ idx = 1
    /\ Len(cfg) = 2
    /\ Len(files) = 3
    /\ i = 1
    /\ file.strategy = "copytruncate"
    /\ fs0[live] # <<>>
    /\ files[3] \in DOMAIN fs0
    /\ fs[files[3]] = fs0[files[2]]
    /\ fs[files[3]] # fs0[files[3]]

\* rotate_file is at its copy loop or has returned
InRotate == pc \in {"copy", "update"}

\* the bytes the live file had when rotate_file was entered are in the live file
\* or in path.1
LiveBytesKept ==
    \/ fs[live] = fs0[live]
    \/ Gen(1) \in DOMAIN fs /\ fs[Gen(1)] = fs0[live]

\* C19 as stated: for every max_files >= 1, in every state of a CopyTruncate
\* rotation, the last included, the bytes the live file had before are in the
\* live file or in path.1.
C19_Original ==
    (InRotate /\ CopyTruncates /\ file.max_files >= 1 /\ live \in DOMAIN fs0)
        => LiveBytesKept

\* C19, amended: the same for every max_files >= 2 (with max_files = 1 and only
\* the live file on disk nothing is copied before the truncation).
C19_NoLossOrdering ==
    (InRotate /\ CopyTruncates /\ file.max_files >= 2 /\ live \in DOMAIN fs0)
        => LiveBytesKept

\* the copies are done, the truncation is not: both files hold the bytes
C19_Witness ==
    /\ pc = "copy"
    /\ i = 0
    /\ CopyTruncates
    /\ file.max_files >= 2
    /\ live \in DOMAIN fs0
    /\ fs0[live] # <<>>
    /\ Gen(1) \in DOMAIN fs0
    /\ fs0[Gen(1)] # fs0[live]
    /\ fs[Gen(1)] = fs0[live]
    /\ fs[live] = fs0[live]

====
